---- MODULE Spec2Model ----
(***************************************************************************)
(* The MapReduce word count of doc/source/ray-core/examples/map_reduce.ipynb *)
(* as a state machine: the driver (the notebook's code cells, run top to    *)
(* bottom), the apply_map tasks and the apply_reduce tasks it submits.      *)
(*                                                                         *)
(* A document is a bytes object, modelled as a sequence of byte values.     *)
(* A dict is a function whose domain is the set of its keys.                *)
(***************************************************************************)
EXTENDS Integers, Sequences, FiniteSets, TLC

\* ------------------------------------------------------------------ bounds

\* Longest corpus (number of documents) drawn in Init.
MaxDocs == 3
\* Largest num_partitions drawn in Init (the smallest is -1).
MaxPartitions == 3
\* How many times the notebook is run on the same input.
NumRuns == 2
\* FairSpec: longest corpus and largest num_partitions drawn in FairInit.
MaxFairDocs == 2
MaxFairPartitions == 2
\* ApplyReduceSpec: most buckets passed to one apply_reduce call.
MaxBuckets == 2
\* ApplyReduceSpec: most pairs in one bucket.
MaxPairs == 2

\* The documents a corpus is drawn from: b"a", b"A  a b" (upper case,
\* two spaces), b"b \xc3\xa9" (a two-byte UTF-8 letter), b"\xff" (not UTF-8).
DocSet ==
    { <<97>>, <<65, 32, 32, 97, 32, 98>>, <<98, 32, 195, 169>>, <<255>> }

Corpora == UNION { [1..n -> DocSet] : n \in 0..MaxDocs }

TaskIds == 0..(MaxPartitions - 1)

EmptyDict == [k \in {} |-> 0]

\* ------------------------------------------------------------------- state

VARIABLES
    corpus,          \* the documents (cell 1: corpus)
    num_partitions,  \* cell 1: num_partitions
    pc,              \* the driver's position in the notebook
    i,               \* the driver's loop index
    chunk,           \* cell 1: chunk
    partitions,      \* cell 1: partitions
    map_results,     \* cell 4: what each apply_map remote call returned
    outputs,         \* cell 6: the reducer tasks submitted, in order
    counts,          \* cell 6: counts
    error,           \* the exception that ended the driver, or "none"
    mapState,        \* per apply_map task: none, pending, done, failed
    mapOut,          \* per apply_map task: the list it returned
    redState,        \* per apply_reduce task: none, pending, done, failed
    redArgs,         \* per apply_reduce task: the object refs it was passed
    redIn,           \* per apply_reduce task: the buckets it consumed
    redOut,          \* per apply_reduce task: the dict it returned
    run,             \* which run of the notebook this is
    history,         \* the outcomes of the earlier runs
    results,         \* ApplyReduceSpec: the arguments of apply_reduce
    reduced,         \* ApplyReduceSpec: what the last call returned
    baseline,        \* ApplyReduceSpec: what the first call returned
    calls            \* ApplyReduceSpec: calls made so far, capped

inputVars == <<corpus, num_partitions>>
driverVars == <<pc, i, chunk, partitions, map_results, outputs, counts, error>>
mapVars == <<mapState, mapOut>>
redVars == <<redState, redArgs, redIn, redOut>>
runVars == <<run, history>>
probeVars == <<results, reduced, baseline, calls>>
vars == <<inputVars, driverVars, mapVars, redVars, runVars, probeVars>>

\* ------------------------------------------------- bytes: lower, split, decode

\* bytes.lower(): the ASCII upper-case letters are mapped to lower case.
Lower(document) ==
    [x \in DOMAIN document |->
        IF document[x] \in 65..90 THEN document[x] + 32 ELSE document[x]]

\* The ASCII whitespace bytes.split() splits on.
IsSpace(b) == b \in {9, 10, 11, 12, 13, 32}

\* bytes.split(): the maximal runs of non-whitespace bytes, in order.
RECURSIVE SplitFrom(_, _, _)
SplitFrom(rest, word, acc) ==
    IF rest = <<>>
    THEN IF word = <<>> THEN acc ELSE Append(acc, word)
    ELSE IF IsSpace(Head(rest))
         THEN SplitFrom(Tail(rest), <<>>,
                        IF word = <<>> THEN acc ELSE Append(acc, word))
         ELSE SplitFrom(Tail(rest), Append(word, Head(rest)), acc)

Split(document) == SplitFrom(document, <<>>, <<>>)

\* bytes.decode("utf-8") succeeds: one-byte and two-byte forms; every other
\* lead byte of the modelled alphabet (255) is never valid UTF-8.
RECURSIVE Utf8Valid(_)
Utf8Valid(word) ==
    IF word = <<>> THEN TRUE
    ELSE IF word[1] < 128 THEN Utf8Valid(Tail(word))
    ELSE IF word[1] \in 194..223 /\ Len(word) >= 2 /\ word[2] \in 128..191
         THEN Utf8Valid(SubSeq(word, 3, Len(word)))
         ELSE FALSE

\* ord(word.decode("utf-8")[0]) of a valid, non-empty word.
FirstLetterOrd(word) ==
    IF word[1] < 128 THEN word[1]
    ELSE (word[1] - 192) * 64 + (word[2] - 128)

\* ------------------------------------------------------------ map_function

\* map_function(document): the pair (word, 1) for every word, in order.
MapFunction(document) ==
    LET words == Split(Lower(document))
    IN  [x \in DOMAIN words |-> <<words[x], 1>>]

\* --------------------------------------------------------------- apply_map

\* word_index with a salt of the worker process added, as hash(key) has for
\* str and bytes keys; the workers are told apart by how many apply_map
\* tasks ended before this one ran.
WordIndexSalted(result, n) ==
    (FirstLetterOrd(result[1])
        + Cardinality({ t \in TaskIds : mapState[t] \in {"done", "failed"} })) % n

\* first_letter = result[0].decode("utf-8")[0]
\* word_index = ord(first_letter) % num_partitions
WordIndex(result, n) == FirstLetterOrd(result[1]) % n

\* map_results[word_index].append(result), overwriting instead of appending
AppendResultOverwrite(map_results_, result, n) ==
    [map_results_ EXCEPT ![WordIndex(result, n) + 1] = <<result>>]

\* map_results[word_index].append(result)
AppendResult(map_results_, result, n) ==
    [map_results_ EXCEPT ![WordIndex(result, n) + 1] = Append(@, result)]

\* the inner loop of apply_map over the pairs of one document
RECURSIVE MapDocument(_, _, _)
MapDocument(pairs, map_results_, n) ==
    IF pairs = <<>> THEN map_results_
    ELSE MapDocument(Tail(pairs), AppendResult(map_results_, Head(pairs), n), n)

\* the outer loop of apply_map over the documents of the shard
RECURSIVE MapCorpus(_, _, _)
MapCorpus(docs, map_results_, n) ==
    IF docs = <<>> THEN map_results_
    ELSE MapCorpus(Tail(docs),
                   MapDocument(MapFunction(Head(docs)), map_results_, n), n)

\* apply_map raises (UnicodeDecodeError) on a word that is not UTF-8.
ApplyMapRaises(docs) ==
    \E d \in DOMAIN docs :
        \E x \in DOMAIN MapFunction(docs[d]) :
            ~Utf8Valid(MapFunction(docs[d])[x][1])

\* apply_map(corpus, num_partitions), when it does not raise.
ApplyMap(docs, n) == MapCorpus(docs, [k \in 1..n |-> <<>>], n)

\* ------------------------------------------------------------ apply_reduce

\* reduce_results[key] = value: the assignment in place of the +=
ReducePairAssign(reduce_results, pair) ==
    LET key == pair[1]
        value == pair[2]
    IN  [k \in DOMAIN reduce_results \cup {key} |->
            IF k = key THEN value ELSE reduce_results[k]]

\* if key not in reduce_results: reduce_results[key] = 0
\* reduce_results[key] += value
ReducePair(reduce_results, pair) ==
    LET key == pair[1]
        value == pair[2]
        started == [k \in DOMAIN reduce_results \cup {key} |->
                       IF k \in DOMAIN reduce_results
                       THEN reduce_results[k] ELSE 0]
    IN  [started EXCEPT ![key] = @ + value]

\* for key, value in res
RECURSIVE ReduceBucket(_, _)
ReduceBucket(reduce_results, res) ==
    IF res = <<>> THEN reduce_results
    ELSE ReduceBucket(ReducePair(reduce_results, Head(res)), Tail(res))

\* for res in results
RECURSIVE ReduceAll(_, _)
ReduceAll(reduce_results, results_) ==
    IF results_ = <<>> THEN reduce_results
    ELSE ReduceAll(ReduceBucket(reduce_results, Head(results_)), Tail(results_))

\* apply_reduce(*results)
ApplyReduce(results_) == ReduceAll(EmptyDict, results_)

\* ------------------------------------------------------ Python arithmetic

\* a // b for a >= 0 and b # 0 (floor division)
FloorDiv(a, b) ==
    IF b > 0 THEN a \div b ELSE 0 - ((a + (0 - b) - 1) \div (0 - b))

Min(a, b) == IF a < b THEN a ELSE b

\* s[lo:hi] for 0 <= lo <= hi (the slice is clamped to the sequence)
Slice(s, lo, hi) == SubSeq(s, Min(lo, Len(s)) + 1, Min(hi, Len(s)))

\* range(n) as the sequence 0, 1, ..., n-1 (empty when n <= 0)
Range(n) == [x \in 1..n |-> x - 1]

\* -------------------------------------------------------- the Ray runtime

\* f.options(num_returns=n).remote(...): one ObjectRef when n = 1, a list of
\* n ObjectRefs otherwise.  A ref is <<task, return index>>.
RemoteReturns(task, n) ==
    IF n = 1
    THEN [single |-> TRUE, refs |-> << <<task, 0>> >>]
    ELSE [single |-> FALSE, refs |-> [k \in 1..n |-> <<task, k - 1>>]]

\* An object is ready as soon as its task was submitted.
ObjectReadyOnSubmit(task) == mapState[task] # "none"

\* An object is ready only when its task succeeded.
ObjectReadyOnSuccess(task) == mapState[task] = "done"

\* The return objects of an apply_map task are ready (as values or as the
\* task's error) once the task has ended.
ObjectReady(task) == mapState[task] \in {"done", "failed"}

\* ray.get on a return object of a task that raised re-raises its error.
RayGetRaises(task) == mapState[task] = "failed"

\* The value stored for a ref: return value k of the task.
ObjectValue(ref) ==
    IF mapState[ref[1]] # "done" THEN <<>>
    ELSE IF num_partitions = 1 THEN mapOut[ref[1]]
    ELSE mapOut[ref[1]][ref[2] + 1]

\* ----------------------------------------------------------------- driver

Idle == [t \in TaskIds |-> "none"]
NoLists == [t \in TaskIds |-> <<>>]
NoDicts == [t \in TaskIds |-> EmptyDict]

JobStart ==
    /\ pc = "partition"
    /\ i = 0
    /\ chunk = 0
    /\ partitions = <<>>
    /\ map_results = <<>>
    /\ outputs = <<>>
    /\ counts = EmptyDict
    /\ error = "none"
    /\ mapState = Idle
    /\ mapOut = NoLists
    /\ redState = Idle
    /\ redArgs = NoLists
    /\ redIn = NoLists
    /\ redOut = NoDicts

ProbeIdle ==
    /\ results = <<>>
    /\ reduced = EmptyDict
    /\ baseline = EmptyDict
    /\ calls = 0

Init ==
    /\ corpus \in Corpora
    /\ num_partitions \in (0 - 1)..MaxPartitions
    /\ JobStart
    /\ run = 1
    /\ history = <<>>
    /\ ProbeIdle

\* cell 1: chunk = len(corpus) // num_partitions; partitions = [...]
Partition ==
    /\ pc = "partition"
    /\ IF num_partitions = 0
       THEN /\ pc' = "failed"
            /\ error' = "ZeroDivisionError"
            /\ UNCHANGED <<chunk, partitions>>
       ELSE /\ chunk' = FloorDiv(Len(corpus), num_partitions)
            /\ partitions' =
                 [x \in 1..num_partitions |->
                     Slice(corpus, (x - 1) * chunk', x * chunk')]
            /\ pc' = "submit_map"
            /\ error' = error
    /\ i' = 0
    /\ UNCHANGED <<map_results, outputs, counts>>
    /\ UNCHANGED <<inputVars, mapVars, redVars, runVars, probeVars>>

\* cell 4: one iteration of
\*   [apply_map.options(num_returns=num_partitions).remote(data, num_partitions)
\*    for data in partitions]
SubmitMap ==
    /\ pc = "submit_map"
    /\ IF i < Len(partitions)
       THEN /\ map_results' =
                 Append(map_results, RemoteReturns(i, num_partitions))
            /\ mapState' = [mapState EXCEPT ![i] = "pending"]
            /\ i' = i + 1
            /\ pc' = pc
       ELSE /\ pc' = "get_map"
            /\ i' = 0
            /\ UNCHANGED <<map_results, mapState>>
    /\ UNCHANGED <<chunk, partitions, outputs, counts, error, mapOut>>
    /\ UNCHANGED <<inputVars, redVars, runVars, probeVars>>

\* for i in range(0): the loop over the mappers' results never entered
InNoRange(x) == x < 0

\* cell 4: for i in range(num_partitions)
InGetRange(x) == x < num_partitions

\* cell 4: one iteration of
\*   for i in range(num_partitions): mapper_results = ray.get(map_results[i])
GetMap ==
    /\ pc = "get_map"
    /\ IF InGetRange(i)
       THEN /\ ObjectReady(i)
            /\ IF RayGetRaises(i)
               THEN /\ pc' = "failed"
                    /\ error' = "RayTaskError"
                    /\ i' = i
               ELSE /\ i' = i + 1
                    /\ UNCHANGED <<pc, error>>
       ELSE /\ pc' = "submit_reduce"
            /\ i' = 0
            /\ error' = error
    /\ UNCHANGED <<chunk, partitions, map_results, outputs, counts>>
    /\ UNCHANGED <<inputVars, mapVars, redVars, runVars, probeVars>>

\* [partition[0] for partition in map_results]: the index fixed at 0
ReduceArgsFirst(j) ==
    [m \in 1..Len(map_results) |-> map_results[m].refs[1]]

\* cell 6: [partition[i] for partition in map_results]
ReduceArgs(j) ==
    [m \in 1..Len(map_results) |-> map_results[m].refs[j + 1]]

\* partition[i] on a single ObjectRef raises TypeError (not subscriptable).
SubscriptRaises == \E m \in 1..Len(map_results) : map_results[m].single

\* cell 6: one iteration of
\*   for i in range(num_partitions):
\*       outputs.append(apply_reduce.remote(*[partition[i] for ...]))
SubmitReduce ==
    /\ pc = "submit_reduce"
    /\ IF i < num_partitions
       THEN IF SubscriptRaises
            THEN /\ pc' = "failed"
                 /\ error' = "TypeError"
                 /\ UNCHANGED <<i, outputs, redState, redArgs>>
            ELSE /\ redArgs' = [redArgs EXCEPT ![i] = ReduceArgs(i)]
                 /\ redState' = [redState EXCEPT ![i] = "pending"]
                 /\ outputs' = Append(outputs, i)
                 /\ i' = i + 1
                 /\ UNCHANGED <<pc, error>>
       ELSE /\ pc' = "get_outputs"
            /\ i' = 0
            /\ UNCHANGED <<error, outputs, redState, redArgs>>
    /\ UNCHANGED <<chunk, partitions, map_results, counts, redIn, redOut>>
    /\ UNCHANGED <<inputVars, mapVars, runVars, probeVars>>

\* {k: v for output in ... for k, v in output.items()}: a later output's
\* value replaces an earlier one's for the same key.
RECURSIVE MergeOutputs(_, _)
MergeOutputs(acc, dicts) ==
    IF dicts = <<>> THEN acc
    ELSE MergeOutputs(
             [k \in DOMAIN acc \cup DOMAIN Head(dicts) |->
                 IF k \in DOMAIN Head(dicts) THEN Head(dicts)[k] ELSE acc[k]],
             Tail(dicts))

\* cell 6: counts = {... for output in ray.get(outputs) ...}
GetOutputs ==
    /\ pc = "get_outputs"
    /\ \A x \in DOMAIN outputs : redState[outputs[x]] \in {"done", "failed"}
    /\ IF \E x \in DOMAIN outputs : redState[outputs[x]] = "failed"
       THEN /\ pc' = "failed"
            /\ error' = "RayTaskError"
            /\ counts' = counts
       ELSE /\ counts' =
                 MergeOutputs(EmptyDict,
                              [x \in DOMAIN outputs |-> redOut[outputs[x]]])
            /\ pc' = "done"
            /\ error' = error
    /\ UNCHANGED <<i, chunk, partitions, map_results, outputs>>
    /\ UNCHANGED <<inputVars, mapVars, redVars, runVars, probeVars>>

\* ------------------------------------------------------------------ tasks

\* A worker runs apply_map task m to its end.
RunMapper(m) ==
    /\ mapState[m] = "pending"
    /\ IF ApplyMapRaises(partitions[m + 1])
       THEN /\ mapState' = [mapState EXCEPT ![m] = "failed"]
            /\ mapOut' = mapOut
       ELSE /\ mapState' = [mapState EXCEPT ![m] = "done"]
            /\ mapOut' =
                 [mapOut EXCEPT ![m] = ApplyMap(partitions[m + 1], num_partitions)]
    /\ UNCHANGED <<inputVars, driverVars, redVars, runVars, probeVars>>

\* A worker runs apply_reduce task j to its end, once every object it was
\* passed is ready; it fails if one of them holds an error.
RunReducer(j) ==
    /\ redState[j] = "pending"
    /\ \A x \in DOMAIN redArgs[j] : ObjectReady(redArgs[j][x][1])
    /\ IF \E x \in DOMAIN redArgs[j] : mapState[redArgs[j][x][1]] = "failed"
       THEN /\ redState' = [redState EXCEPT ![j] = "failed"]
            /\ UNCHANGED <<redIn, redOut>>
       ELSE LET values == [x \in DOMAIN redArgs[j] |-> ObjectValue(redArgs[j][x])]
            IN  /\ redState' = [redState EXCEPT ![j] = "done"]
                /\ redIn' = [redIn EXCEPT ![j] = values]
                /\ redOut' = [redOut EXCEPT ![j] = ApplyReduce(values)]
    /\ redArgs' = redArgs
    /\ UNCHANGED <<inputVars, driverVars, mapVars, runVars, probeVars>>

\* ------------------------------------------------------------------- runs

Terminated == pc \in {"done", "failed"}

Outcome == [pc |-> pc, error |-> error, counts |-> counts]

\* The notebook is run again, from the top, on the same input.
Rerun ==
    /\ Terminated
    /\ run < NumRuns
    /\ run' = run + 1
    /\ history' = Append(history, Outcome)
    /\ pc' = "partition"
    /\ i' = 0
    /\ chunk' = 0
    /\ partitions' = <<>>
    /\ map_results' = <<>>
    /\ outputs' = <<>>
    /\ counts' = EmptyDict
    /\ error' = "none"
    /\ mapState' = Idle
    /\ mapOut' = NoLists
    /\ redState' = Idle
    /\ redArgs' = NoLists
    /\ redIn' = NoLists
    /\ redOut' = NoDicts
    /\ UNCHANGED <<inputVars, probeVars>>

JobNext ==
    \/ Partition
    \/ SubmitMap
    \/ GetMap
    \/ SubmitReduce
    \/ GetOutputs
    \/ \E m \in TaskIds : RunMapper(m)
    \/ \E j \in TaskIds : RunReducer(j)

Next == JobNext \/ Rerun

Spec == Init /\ [][Next]_vars

\* One run of the notebook, on the smaller inputs of the liveness property.
FairInit ==
    /\ corpus \in UNION { [1..n -> DocSet] : n \in 0..MaxFairDocs }
    /\ num_partitions \in (0 - 1)..MaxFairPartitions
    /\ JobStart
    /\ run = 1
    /\ history = <<>>
    /\ ProbeIdle

\* Ray runs every submitted task and the driver runs on.
FairSpec == FairInit /\ [][JobNext]_vars /\ WF_vars(JobNext)

\* ------------------------------------------ apply_reduce on arbitrary inputs

\* The pairs the arguments of apply_reduce are drawn from.
PairSet == { << <<97>>, 1 >>, << <<97>>, 2 >>, << <<98>>, 1 >> }

Buckets == UNION { [1..n -> PairSet] : n \in 0..MaxPairs }

BucketLists == UNION { [1..n -> Buckets] : n \in 0..MaxBuckets }

\* s with its elements x and x + 1 exchanged
Swap(s, x) ==
    [y \in DOMAIN s |-> IF y = x THEN s[x + 1] ELSE IF y = x + 1 THEN s[x] ELSE s[y]]

InitReduce ==
    /\ corpus = <<>>
    /\ num_partitions = 1
    /\ JobStart
    /\ run = 1
    /\ history = <<>>
    /\ results \in BucketLists
    /\ reduced = EmptyDict
    /\ baseline = EmptyDict
    /\ calls = 0

\* apply_reduce(*results)
FirstCall ==
    /\ calls = 0
    /\ reduced' = ApplyReduce(results)
    /\ baseline' = reduced'
    /\ calls' = 1
    /\ UNCHANGED <<results, inputVars, driverVars, mapVars, redVars, runVars>>

\* apply_reduce on the same buckets, two neighbouring buckets exchanged
CallSwappedBuckets(x) ==
    /\ calls > 0
    /\ x + 1 \in DOMAIN results
    /\ results' = Swap(results, x)
    /\ reduced' = ApplyReduce(results')
    /\ calls' = 2
    /\ UNCHANGED <<baseline, inputVars, driverVars, mapVars, redVars, runVars>>

\* apply_reduce on the same buckets, two neighbouring pairs of bucket b
\* exchanged
CallSwappedPairs(b, x) ==
    /\ calls > 0
    /\ b \in DOMAIN results
    /\ x + 1 \in DOMAIN results[b]
    /\ results' = [results EXCEPT ![b] = Swap(@, x)]
    /\ reduced' = ApplyReduce(results')
    /\ calls' = 2
    /\ UNCHANGED <<baseline, inputVars, driverVars, mapVars, redVars, runVars>>

NextReduce ==
    \/ FirstCall
    \/ \E x \in 1..MaxBuckets : CallSwappedBuckets(x)
    \/ \E b \in 1..MaxBuckets : \E x \in 1..MaxPairs : CallSwappedPairs(b, x)

ApplyReduceSpec == InitReduce /\ [][NextReduce]_vars

\* ----------------------------------------------------- what the claims use

\* The positions <<b, x>> of the pairs of a sequence of pair sequences.
Positions(lists) ==
    UNION { { <<b, x>> : x \in DOMAIN lists[b] } : b \in DOMAIN lists }

RECURSIVE SumValues(_, _)
SumValues(S, lists) ==
    IF S = {} THEN 0
    ELSE LET o == CHOOSE o \in S : TRUE
         IN  lists[o[1]][o[2]][2] + SumValues(S \ {o}, lists)

\* Each key of the pairs of `lists` with the sum of its pairs' values.
KeySums(lists) ==
    [k \in { lists[o[1]][o[2]][1] : o \in Positions(lists) } |->
        SumValues({ o \in Positions(lists) : lists[o[1]][o[2]][1] = k }, lists)]

\* The single-pass word count of a sequence of documents.
NaiveCount(docs) == KeySums([d \in DOMAIN docs |-> MapFunction(docs[d])])

\* How many pairs of `lists` equal e.
Occurrences(lists, e) ==
    Cardinality({ o \in Positions(lists) : lists[o[1]][o[2]] = e })

PairValues(lists) == { lists[o[1]][o[2]] : o \in Positions(lists) }

Mappers == { m \in TaskIds : m < num_partitions }

AllMapped == \A m \in Mappers : mapState[m] = "done"

\* The pairs map_function yields over the shard of mapper m.
ShardPairs(m) ==
    [d \in DOMAIN partitions[m + 1] |-> MapFunction(partitions[m + 1][d])]

\* C1: for every document set D and every p >= 1, the merged counts of the
\* finished job are the single-pass word count of D.
C1_RoundTrip ==
    (pc = "done" /\ num_partitions >= 1) => counts = NaiveCount(corpus)

\* C2: every pair's bucket index lies in 0..num_partitions-1 and is the same
\* for equal keys whichever mapper produced the pair, reducer j is passed
\* bucket j of every mapper, and no key is aggregated by two reducers.
C2_OneReducerPerKey ==
    /\ \A m \in Mappers :
          mapState[m] = "done" => DOMAIN mapOut[m] = 1..num_partitions
    /\ \A m1, m2 \in Mappers :
          (mapState[m1] = "done" /\ mapState[m2] = "done") =>
              \A o1 \in Positions(mapOut[m1]), o2 \in Positions(mapOut[m2]) :
                  mapOut[m1][o1[1]][o1[2]][1] = mapOut[m2][o2[1]][o2[2]][1]
                      => o1[1] = o2[1]
    /\ \A j \in TaskIds :
          redState[j] # "none" =>
              redArgs[j] = [m \in 1..num_partitions |-> <<m - 1, j>>]
    /\ \A j1, j2 \in TaskIds :
          (j1 # j2 /\ redState[j1] = "done" /\ redState[j2] = "done") =>
              DOMAIN redOut[j1] \cap DOMAIN redOut[j2] = {}

\* Two reducers have finished, one of them on a key that two mappers emitted.
C2_Witness ==
    \E j1, j2 \in TaskIds, m1, m2 \in Mappers :
        /\ j1 # j2 /\ m1 # m2
        /\ redState[j1] = "done" /\ redState[j2] = "done"
        /\ redOut[j2] # EmptyDict
        /\ \E k \in DOMAIN redOut[j1] :
              /\ \E x \in DOMAIN mapOut[m1][j1 + 1] : mapOut[m1][j1 + 1][x][1] = k
              /\ \E x \in DOMAIN mapOut[m2][j1 + 1] : mapOut[m2][j1 + 1][x][1] = k

\* C3: the buckets a mapper returns hold exactly the pairs map_function
\* yielded over its shard, each as often as it was yielded.
C3_NoLossNoDuplication ==
    \A m \in Mappers :
        mapState[m] = "done" =>
            /\ Len(mapOut[m]) = num_partitions
            /\ PairValues(mapOut[m]) = PairValues(ShardPairs(m))
            /\ \A e \in PairValues(ShardPairs(m)) :
                  Occurrences(mapOut[m], e) = Occurrences(ShardPairs(m), e)

\* A mapper has returned a bucket of two pairs and another non-empty bucket.
C3_Witness ==
    \E m \in Mappers :
        /\ mapState[m] = "done"
        /\ \E k1, k2 \in DOMAIN mapOut[m] :
              k1 # k2 /\ Len(mapOut[m][k1]) >= 2 /\ Len(mapOut[m][k2]) >= 1

\* C4: a run on the same input ends as every earlier run did, whatever the
\* order in which the tasks ran.
C4_Deterministic ==
    /\ \A x, y \in DOMAIN history : history[x] = history[y]
    /\ Terminated => \A x \in DOMAIN history : history[x] = Outcome

\* A second run has completed with counts, after a first one.
C4_Witness ==
    /\ run = 2
    /\ Len(history) = 1
    /\ pc = "done"
    /\ Cardinality(DOMAIN counts) >= 2

\* C5: with num_partitions = 1 the job runs one mapper and one reducer and
\* completes with the word counts of the whole input.
C5_SinglePartition ==
    (num_partitions = 1 /\ Terminated /\ ~ApplyMapRaises(corpus)) =>
        /\ pc = "done"
        /\ redState[0] = "done"
        /\ counts = NaiveCount(corpus)

\* C6: with num_partitions <= 0 no task is dispatched and the job never
\* completes with a result.
C6_Rejected ==
    num_partitions <= 0 =>
        /\ pc # "done"
        /\ \A t \in TaskIds : mapState[t] = "none" /\ redState[t] = "none"

\* Some shard holds a document on which the map raises.
MapWillRaise == \E x \in DOMAIN partitions : ApplyMapRaises(partitions[x])

\* C7: when the map raises on a document of a shard, no reducer task is
\* ever submitted and the job, once ended, has failed with the task's error.
C7_NoReducerAfterMapError ==
    MapWillRaise =>
        /\ \A j \in TaskIds : redState[j] = "none"
        /\ outputs = <<>>
        /\ pc # "done"
        /\ Terminated => (pc = "failed" /\ error = "RayTaskError")

\* The job has failed on a mapper's error while another mapper succeeded.
C7_Witness ==
    /\ pc = "failed"
    /\ error = "RayTaskError"
    /\ \E m1, m2 \in Mappers : mapState[m1] = "failed" /\ mapState[m2] = "done"

C10_OrderInsensitive ==
    calls > 0 =>
        /\ reduced = baseline
        /\ reduced = KeySums(results)

\* apply_reduce was called again on reordered buckets in which one key has
\* pairs of different values in two buckets.
C10_Witness ==
    /\ calls = 2
    /\ Len(results) = 2
    /\ results[1] # results[2]
    /\ \E x \in DOMAIN results[1], y \in DOMAIN results[2] :
          /\ results[1][x][1] = results[2][y][1]
          /\ results[1][x][2] # results[2][y][2]

====
